---- MODULE Spec2Model ----
(***************************************************************************)
(* Connection lifecycle manager of integrationcli (package connections):   *)
(* Create / create, the operation poller, Get, Import and Export, with     *)
(* the process-wide HTTP-response printing flag.                           *)
(*                                                                         *)
(* Strings that the code formats, splits or searches are sequences of      *)
(* tokens ("/" and "@" are tokens of their own), so that Sprintf is        *)
(* concatenation and strings.Split / strings.Contains are computed.        *)
(* A Go pointer is a sequence of length 0 (nil) or 1 (the pointee).        *)
(***************************************************************************)
EXTENDS Integers, Sequences, FiniteSets, TLC

\* ------------------------------------------------------------------ bounds
MaxPolls == 3
MaxFiles == 2
MaxConnections == 2
MaxSecretVersion == 2

\* ------------------------------------------------------------------ pointers
Nil == <<>>
Some(x) == <<x>>
IsNil(p) == p = <<>>
Deref(p) == p[1]

\* ------------------------------------------------------------------ strings
S(t) == <<t>>
EmptyStr == <<>>
Slash == "/"
At == "@"
IamSuffix == ".iam.gserviceaccount.com"

\* strings.Contains(s, t) for a one-token t
Contains(s, t) == \E i \in 1..Len(s) : s[i] = t

\* index of the first occurrence of token sep in s, 0 when there is none
RECURSIVE IndexOf(_, _, _)
IndexOf(s, sep, i) ==
    IF i > Len(s) THEN 0
    ELSE IF s[i] = sep THEN i
    ELSE IndexOf(s, sep, i + 1)

\* strings.Split(s, sep): always at least one element
RECURSIVE Split(_, _)
Split(s, sep) ==
    LET i == IndexOf(s, sep, 1) IN
    IF i = 0 THEN <<s>>
    ELSE <<SubSeq(s, 1, i - 1)>> \o Split(SubSeq(s, i + 1, Len(s)), sep)

\* strings.Join(xs, sep)
RECURSIVE Join(_, _)
Join(xs, sep) ==
    IF Len(xs) = 0 THEN EmptyStr
    ELSE IF Len(xs) = 1 THEN xs[1]
    ELSE xs[1] \o <<sep>> \o Join(Tail(xs), sep)

\* strconv.Itoa / the %d verb: decimal digits, one token per digit
Digits == <<"0", "1", "2", "3", "4", "5", "6", "7", "8", "9">>
RECURSIVE ItoaNat(_)
ItoaNat(n) == IF n < 10 THEN <<Digits[n + 1]>> ELSE ItoaNat(n \div 10) \o <<Digits[(n % 10) + 1]>>
Itoa(n) == IF n < 0 THEN <<"-">> \o ItoaNat(0 - n) ELSE ItoaNat(n)

\* ------------------------------------------------------------------ process-wide configuration
ProjectID == S("p1")
Region == S("us-west1")
GetProjectID == ProjectID
GetRegion == Region
ProjectToken == S("$PROJECT_ID$")
RegionToken == S("$REGION$")
\* a Go error: nil, or a value with its message
NoError == <<>>
Error(message) == <<S(message)>>
Message(err) == err[1]

\* ------------------------------------------------------------------ documents
\* type connectorDetails
ConnectorDetails(name, provider, version) ==
    [Name |-> name, Provider |-> provider, Version |-> version]

\* type configVar: the key and the string value (a variable of another kind
\* has a nil StringValue)
ConfigVar(key, value) == [Key |-> key, StringValue |-> value]

\* type secret / type secretDetails
Secret(version) == [SecretVersion |-> version]
SecretDetails(name, reference) == [SecretName |-> name, Reference |-> reference]

\* type userPassword, oauth2JwtBearer, oauth2ClientCredentials, sshPublicKey
UserPassword(password, details) == [Password |-> password, PasswordDetails |-> details]
Oauth2JwtBearer(key, details) == [ClientKey |-> key, ClientKeyDetails |-> details]
Oauth2ClientCredentials(sec, details) == [ClientSecret |-> sec, ClientSecretDetails |-> details]
SshPublicKey(password, details, cert, certDetails) ==
    [Password |-> password, PasswordDetails |-> details,
     SshClientCert |-> cert, SshClientCertDetails |-> certDetails]

\* type authConfig
AuthConfig(authType, up, jwt, cc, ssh) ==
    [AuthType |-> authType, UserPassword |-> up, Oauth2JwtBearer |-> jwt,
     Oauth2ClientCredentials |-> cc, SshPublicKey |-> ssh]

\* type connectionRequest (the fields create reads or writes, and description
\* as a field it passes through)
ConnectionRequest(cd, cv, vars, auth, sa) ==
    [Description |-> Some(S("descr")), ConnectorDetails |-> cd, ConnectorVersion |-> cv,
     ConfigVariables |-> vars, AuthConfig |-> auth, ServiceAccount |-> sa]

\* type status, type operation
Operation(name, done, error) == [Name |-> name, Done |-> done, Error |-> error]
Status == [Code |-> 13, Message |-> S("internal")]

\* A byte slice holding JSON text: well-formed text carries the value it
\* decodes to; malformed text decodes to nothing.
Json(v) == [valid |-> TRUE, v |-> Some(v)]
Malformed == [valid |-> FALSE, v |-> Nil]

\* json.Marshal of a connectionRequest: a nil pointer field is omitted
\* (omitempty), every other field is written. The result is the JSON object,
\* a function from the keys present to their values (a nested payload keeps
\* its pointer fields: nil there is again an omitted key).
MarshalKeys(c) == {k \in DOMAIN c : ~IsNil(c[k])}
Marshal(c) == [k \in MarshalKeys(c) |-> Deref(c[k])]

\* ------------------------------------------------------------------ external collaborators
\* The outcome of the external calls of one run of create. Every failure
\* but that of a connector-specific IAM grant ends the run, so at most one
\* such failure is ever observed: fatal names the call that fails ("none"
\* when none does), grantFails the outcome of the connector-specific grant,
\* post the answer of the control plane, secretVersion the version number
\* the secret store assigns.
FatalCalls ==
    {"CreateServiceAccount", "GetComputeEngineDefaultServiceAccount", "readSecretFile",
     "DecryptSymmetric", "secmgr.Create", "SetSecretManagerIAMPermission"}
GrantCalls ==
    {"SetPubSubIAMPermission", "SetBigQueryIAMPermission",
     "SetCloudStorageIAMPermission", "SetCloudSQLIAMPermission"}
Env(fatal, grantFails, post, secretVersion) ==
    [fatal |-> fatal, grantFails |-> grantFails, post |-> post, secretVersion |-> secretVersion]

\* an external call as it is logged: the function and its string arguments;
\* body is the document an HTTP call carries and answer what the call came
\* back with (logged for the POST of create and for secmgr.Create)
Call(fn, args) == [fn |-> fn, args |-> args, body |-> Nil, answer |-> Nil]
HttpCall(method, url, body, answer) ==
    [fn |-> "HttpClient", args |-> <<S(method), url>>, body |-> body, answer |-> answer]

\* the project's default compute identity
DefaultComputeSA == <<"1234", "-compute", At, "developer.gserviceaccount.com">>
\* the secret version the secret store returns
SecretVersionPath(project, name, n) ==
    S("projects") \o S(Slash) \o project \o S(Slash) \o S("secrets") \o S(Slash) \o name
        \o S(Slash) \o S("versions") \o S(Slash) \o Itoa(n)
\* file content and its decryption, kept apart so that the payload stored
\* tells which of the two was submitted
FileContent(reference) == S("content-of:") \o reference
Decrypted(key, payload) == S("decrypted:") \o payload

\* ------------------------------------------------------------------ create
\* The state of one run of create: the decoded document c, the local
\* serviceAccountName, the external calls made so far, and how the run
\* stands: "run", or ended with "error" (err says which), "panic" (a nil
\* dereference) or "done" (the POST was made; resp and err are its result).
\* warnings are the lines written to clilog.Warning.
Run(c, sa, calls) ==
    [c |-> c, sa |-> sa, calls |-> calls, status |-> "run", err |-> NoError, resp |-> Nil,
     warnings |-> <<>>]
Fail(s, err) == [s EXCEPT !.status = "error", !.err = Error(err)]
Panic(s) == [s EXCEPT !.status = "panic", !.err = Error("nil pointer dereference")]
Logged(s, call) == [s EXCEPT !.calls = Append(@, call)]
Warned(s, line) == [s EXCEPT !.warnings = Append(@, line)]

\* Create, lines 211-213: an override given as a full service-account email
\* is cut back to its local part
stripServiceAccountName(serviceAccountName) ==
    IF serviceAccountName # EmptyStr /\ Contains(serviceAccountName, IamSuffix)
    THEN Split(serviceAccountName, At)[1]
    ELSE serviceAccountName

\* create, lines 274-290: the override becomes an email in the override's
\* project and the account is created; without an override, granting
\* permissions falls back to the default compute identity
resolveServiceAccount(s, serviceAccountProject, grantPermission, env) ==
    IF s.sa # EmptyStr
    THEN LET project == IF serviceAccountProject = EmptyStr THEN GetProjectID
                        ELSE serviceAccountProject
             email == s.sa \o S(At) \o project \o S(IamSuffix)
             s1 == Logged([s EXCEPT !.sa = email], Call("CreateServiceAccount", <<email>>))
         IN  IF env.fatal = "CreateServiceAccount" THEN Fail(s1, "CreateServiceAccount") ELSE s1
    ELSE IF grantPermission
    THEN LET s1 == Logged(s, Call("GetComputeEngineDefaultServiceAccount", <<GetProjectID>>))
         IN  IF env.fatal = "GetComputeEngineDefaultServiceAccount"
             THEN Fail(s1, "GetComputeEngineDefaultServiceAccount")
             ELSE [s1 EXCEPT !.sa = DefaultComputeSA]
    ELSE s

\* create, lines 292-295
setServiceAccount(s) ==
    IF s.status # "run" THEN s
    ELSE IF IsNil(s.c.ServiceAccount) /\ s.sa # EmptyStr
    THEN [s EXCEPT !.c.ServiceAccount = Some(s.sa)]
    ELSE s

\* create, lines 297-305
validateConnectorDetails(s) ==
    IF s.status # "run" THEN s
    ELSE IF IsNil(s.c.ConnectorDetails) THEN Fail(s, "connectorDetails must be set")
    ELSE IF \/ Deref(s.c.ConnectorDetails).Name = EmptyStr
            \/ Deref(s.c.ConnectorDetails).Version < 0
            \/ Deref(s.c.ConnectorDetails).Provider = EmptyStr
    THEN Fail(s, "connectorDetails Name, Provider and Version must be set")
    ELSE s

\* create, lines 310-315, for one variable: the conditions dereference
\* StringValue once the key has matched
substitutePanics(v) ==
    \/ v.Key = S("project_id") /\ IsNil(v.StringValue)
    \/ v.Key # S("project_id") /\ Contains(v.Key, "_region") /\ IsNil(v.StringValue)
\* substituteVar without the branch of the region
substituteVarProjectOnly(v) ==
    IF v.Key = S("project_id") /\ Deref(v.StringValue) = ProjectToken
    THEN [v EXCEPT !.StringValue = Some(GetProjectID)]
    ELSE v
substituteVar(v) ==
    IF v.Key = S("project_id") /\ Deref(v.StringValue) = ProjectToken
    THEN [v EXCEPT !.StringValue = Some(GetProjectID)]
    ELSE IF Contains(v.Key, "_region") /\ Deref(v.StringValue) = RegionToken
    THEN [v EXCEPT !.StringValue = Some(GetRegion)]
    ELSE v

\* create, lines 307-317
substitutePlaceholders(s) ==
    IF s.status # "run" THEN s
    ELSE IF IsNil(s.c.ConfigVariables) \/ Len(Deref(s.c.ConfigVariables)) = 0 THEN s
    ELSE LET vars == Deref(s.c.ConfigVariables) IN
         IF \E i \in 1..Len(vars) : substitutePanics(vars[i]) THEN Panic(s)
         ELSE [s EXCEPT !.c.ConfigVariables = Some([i \in 1..Len(vars) |-> substituteVar(vars[i])])]

\* the loops of lines 327-334, 346-353, 362-366, 374-378: the value of the last
\* variable with the key, the empty string when there is none
RECURSIVE lastValue(_, _)
lastValue(vars, key) ==
    IF Len(vars) = 0 THEN EmptyStr
    ELSE IF vars[Len(vars)].Key = key THEN Deref(vars[Len(vars)].StringValue)
    ELSE lastValue(SubSeq(vars, 1, Len(vars) - 1), key)

\* grantCase with the failure of the grant returned like that of the
\* Secret Manager grant
grantCaseReturnsError(s, keys, fn, missing, env) ==
    IF IsNil(s.c.ConfigVariables) THEN Panic(s)
    ELSE LET vars == Deref(s.c.ConfigVariables)
             vals == [i \in 1..Len(keys) |-> lastValue(vars, keys[i])]
         IN  IF \E i \in 1..Len(vars) : \E j \in 1..Len(keys) :
                    vars[i].Key = keys[j] /\ IsNil(vars[i].StringValue)
             THEN Panic(s)
             ELSE IF \E j \in 1..Len(keys) : vals[j] = EmptyStr THEN Fail(s, missing)
             ELSE LET s1 == Logged(s, Call(fn, vals \o <<Deref(s.c.ServiceAccount)>>)) IN
                  IF env.grantFails THEN Fail(s1, fn) ELSE s1

\* one case of the switch of lines 323-385: keys are the variables the loop
\* reads (project_id first), fn the grant, missing the error of the check
grantCase(s, keys, fn, missing, env) ==
    IF IsNil(s.c.ConfigVariables) THEN Panic(s)
    ELSE LET vars == Deref(s.c.ConfigVariables)
             vals == [i \in 1..Len(keys) |-> lastValue(vars, keys[i])]
         IN  IF \E i \in 1..Len(vars) : \E j \in 1..Len(keys) :
                    vars[i].Key = keys[j] /\ IsNil(vars[i].StringValue)
             THEN Panic(s)
             ELSE IF \E j \in 1..Len(keys) : vals[j] = EmptyStr THEN Fail(s, missing)
             ELSE \* a failed grant is logged as a warning and the run goes on
                  LET s1 == Logged(s, Call(fn, vals \o <<Deref(s.c.ServiceAccount)>>)) IN
                  IF env.grantFails
                  THEN Warned(s1, "Unable to update permissions for the service account")
                  ELSE s1

\* create, lines 319-386
grantPermissions(s, grantPermission, env) ==
    IF s.status # "run" THEN s
    ELSE IF ~(grantPermission /\ ~IsNil(s.c.ServiceAccount)) THEN s
    ELSE LET name == Deref(s.c.ConnectorDetails).Name IN
         IF name = S("pubsub")
         THEN grantCase(s, <<S("project_id"), S("topic_id")>>, "SetPubSubIAMPermission",
                        "projectId or topicName was not set", env)
         ELSE IF name = S("bigquery")
         THEN grantCase(s, <<S("project_id"), S("dataset_id")>>, "SetBigQueryIAMPermission",
                        "projectId or datasetId was not set", env)
         ELSE IF name = S("gcs")
         THEN grantCase(s, <<S("project_id")>>, "SetCloudStorageIAMPermission",
                        "projectId was not set", env)
         ELSE IF name \in {S("cloudsql-mysql"), S("cloudsql-postgresql"), S("cloudsql-sqlserver")}
         THEN grantCase(s, <<S("project_id")>>, "SetCloudSQLIAMPermission",
                        "projectId was not set", env)
         ELSE s

\* create, lines 388-390: the Sprintf of the version path
connectorVersionPath(project, cd) ==
    S("projects") \o S(Slash) \o project \o S(Slash) \o S("locations") \o S(Slash)
        \o S("global") \o S(Slash) \o S("providers") \o S(Slash) \o cd.Provider
        \o S(Slash) \o S("connectors") \o S(Slash) \o cd.Name \o S(Slash)
        \o S("versions") \o S(Slash) \o Itoa(cd.Version)

\* setConnectorVersion without the statement that removes the element
setConnectorVersionKeepsDetails(s) ==
    IF s.status # "run" THEN s
    ELSE [s EXCEPT !.c.ConnectorVersion =
                       Some(connectorVersionPath(GetProjectID, Deref(s.c.ConnectorDetails)))]

\* create, lines 388-393
setConnectorVersion(s) ==
    IF s.status # "run" THEN s
    ELSE [s EXCEPT !.c.ConnectorVersion =
                       Some(connectorVersionPath(GetProjectID, Deref(s.c.ConnectorDetails))),
                   !.c.ConnectorDetails = Nil]

\* create, lines 400-434 and 444-476 (createSecret) and 436-439, 478-482
\* (otherwise), for the secretDetails of one payload: the run after the
\* calls, and the secret version that replaces the details
materializeSecret(s, details, encryptionKey, grantPermission, createSecret, env) ==
    IF ~createSecret
    THEN [s |-> s, version |-> SecretVersionPath(GetProjectID, details.SecretName, 1)]
    ELSE
    LET s1 == Logged(s, Call("readSecretFile", <<details.Reference>>))
        payload == FileContent(details.Reference)
        key == S("projects") \o S(Slash) \o GetProjectID \o S(Slash) \o encryptionKey
        s2 == IF encryptionKey # EmptyStr
              THEN Logged(s1, Call("DecryptSymmetric", <<key, payload>>))
              ELSE s1
        plain == IF encryptionKey # EmptyStr THEN Decrypted(key, payload) ELSE payload
        version == SecretVersionPath(GetProjectID, details.SecretName, env.secretVersion)
        s3 == Logged(s2, [Call("secmgr.Create", <<GetProjectID, details.SecretName, plain>>)
                              EXCEPT !.answer = Some(version)])
        s4 == IF grantPermission /\ ~IsNil(s.c.ServiceAccount)
              THEN Logged(s3, Call("SetSecretManagerIAMPermission",
                                   <<GetProjectID, details.SecretName, Deref(s.c.ServiceAccount)>>))
              ELSE s3
    IN  IF env.fatal = "readSecretFile" THEN [s |-> Fail(s1, "readSecretFile"), version |-> EmptyStr]
        ELSE IF encryptionKey # EmptyStr /\ env.fatal = "DecryptSymmetric"
        THEN [s |-> Fail(s2, "DecryptSymmetric"), version |-> EmptyStr]
        ELSE IF env.fatal = "secmgr.Create"
        THEN [s |-> Fail(s3, "secmgr.Create"), version |-> EmptyStr]
        ELSE IF grantPermission /\ ~IsNil(s.c.ServiceAccount)
                /\ env.fatal = "SetSecretManagerIAMPermission"
        THEN [s |-> Fail(s4, "SetSecretManagerIAMPermission"), version |-> EmptyStr]
        ELSE [s |-> s4, version |-> version]

\* resolvedPassword without the statement that cleans the input
resolvedPasswordKeepsDetails(up, version) ==
    [up EXCEPT !.Password = Some(Secret(version))]

\* create, lines 423-425 and 436-439: the password is the resolved secret
\* and the details are cleared
resolvedPassword(up, version) ==
    [up EXCEPT !.Password = Some(Secret(version)), !.PasswordDetails = Nil]
\* create, lines 465-467 and 478-482
resolvedClientKey(jwt, version) ==
    [jwt EXCEPT !.ClientKey = Some(Secret(version)), !.ClientKeyDetails = Nil]

\* create, lines 395-500
handleSecrets(s, encryptionKey, grantPermission, createSecret, env) ==
    IF s.status # "run" THEN s
    ELSE IF IsNil(s.c.AuthConfig) THEN s
    ELSE LET auth == Deref(s.c.AuthConfig) IN
         IF auth.AuthType = "USER_PASSWORD"
         THEN IF ~IsNil(auth.UserPassword) /\ ~IsNil(Deref(auth.UserPassword).PasswordDetails)
              THEN LET m == materializeSecret(s, Deref(Deref(auth.UserPassword).PasswordDetails),
                                              encryptionKey, grantPermission, createSecret, env)
                       up == resolvedPassword(Deref(auth.UserPassword), m.version)
                   IN  IF m.s.status # "run" THEN m.s
                       ELSE [m.s EXCEPT !.c.AuthConfig = Some([auth EXCEPT !.UserPassword = Some(up)])]
              ELSE s
         ELSE IF auth.AuthType = "OAUTH2_JWT_BEARER"
         THEN IF ~IsNil(auth.Oauth2JwtBearer) /\ ~IsNil(Deref(auth.Oauth2JwtBearer).ClientKeyDetails)
              THEN LET w == IF createSecret
                            THEN Warned(s, "Creating secrets is not implemented")
                            ELSE s
                       m == materializeSecret(w, Deref(Deref(auth.Oauth2JwtBearer).ClientKeyDetails),
                                              encryptionKey, grantPermission, createSecret, env)
                       jwt == resolvedClientKey(Deref(auth.Oauth2JwtBearer), m.version)
                   IN  IF m.s.status # "run" THEN m.s
                       ELSE [m.s EXCEPT !.c.AuthConfig = Some([auth EXCEPT !.Oauth2JwtBearer = Some(jwt)])]
              ELSE s
         ELSE IF auth.AuthType \in {"OAUTH2_CLIENT_CREDENTIALS", "SSH_PUBLIC_KEY", "OAUTH2_AUTH_CODE_FLOW"}
         THEN IF createSecret THEN Warned(s, "Creating secrets is not implemented") ELSE s
         ELSE Warned(s, "No auth type found, assuming service account auth")

\* the URL of the connections collection with the connectionId query
\* parameter, lines 502-505
createURL(name) == S("connections?connectionId=") \o name

\* create, lines 502-512: the document is marshalled and posted; the result
\* of create is the result of the POST
submit(s, name, env) ==
    IF s.status # "run" THEN s
    ELSE [Logged(s, HttpCall("POST", createURL(name), Some(Marshal(s.c)), Some(env.post))) EXCEPT
             !.status = "done", !.resp = env.post.body, !.err = env.post.err]

\* create, lines 264-513
create(name, content, serviceAccountName, serviceAccountProject, encryptionKey, grantPermission, createSecret, env) ==
    IF ~content.valid
    THEN Fail(Run(Nil, serviceAccountName, <<>>), "json: cannot unmarshal")
    ELSE LET s0 == Run(Deref(content.v), serviceAccountName, <<>>)
             s1 == resolveServiceAccount(s0, serviceAccountProject, grantPermission, env)
             s2 == setServiceAccount(s1)
             s3 == validateConnectorDetails(s2)
             s4 == substitutePlaceholders(s3)
             s5 == grantPermissions(s4, grantPermission, env)
             s6 == setConnectorVersion(s5)
             s7 == handleSecrets(s6, encryptionKey, grantPermission, createSecret, env)
         IN  submit(s7, name, env)

\* ------------------------------------------------------------------ inputs
\* connector names: those with a connector-specific grant, and one without
GrantConnectors ==
    {S("pubsub"), S("bigquery"), S("gcs"), S("cloudsql-mysql"), S("cloudsql-postgresql"),
     S("cloudsql-sqlserver")}
OtherConnector == S("salesforce")
Provider == S("gcp")

\* connectorDetails: missing, each field invalid in turn, and valid ones
DetailsInputs ==
    {Nil,
     Some(ConnectorDetails(EmptyStr, Provider, 1)),
     Some(ConnectorDetails(OtherConnector, EmptyStr, 1)),
     Some(ConnectorDetails(OtherConnector, Provider, 0 - 1)),
     Some(ConnectorDetails(OtherConnector, Provider, 0)),
     Some(ConnectorDetails(OtherConnector, Provider, 1)),
     Some(ConnectorDetails(OtherConnector, Provider, 12))}

\* configVariables: none at all, an empty list, placeholders, explicit
\* values, a required key missing, a value of another kind, an empty value
VarsInputs ==
    {Nil,
     Some(<<>>),
     Some(<<ConfigVar(S("project_id"), Some(ProjectToken)),
            ConfigVar(<<"gcp", "_region">>, Some(RegionToken))>>),
     Some(<<ConfigVar(S("project_id"), Some(ProjectToken)),
            ConfigVar(S("topic_id"), Some(S("t1"))),
            ConfigVar(S("dataset_id"), Some(S("d1")))>>),
     Some(<<ConfigVar(S("project_id"), Some(S("p9"))),
            ConfigVar(S("topic_id"), Some(S("t1"))),
            ConfigVar(S("dataset_id"), Some(S("d1"))),
            ConfigVar(<<"gcp", "_region">>, Some(RegionToken))>>),
     Some(<<ConfigVar(S("topic_id"), Some(S("t1"))),
            ConfigVar(S("dataset_id"), Some(S("d1")))>>),
     Some(<<ConfigVar(S("project_id"), Nil)>>),
     Some(<<ConfigVar(S("project_id"), Some(EmptyStr)),
            ConfigVar(<<"gcp", "_region">>, Some(S("europe-west1")))>>)}

\* authConfig: none; each auth type with details to resolve, with a
\* resolved secret, with both, or without its payload
Details1 == SecretDetails(S("sec1"), S("pwd.txt"))
Resolved1 == Secret(SecretVersionPath(S("p0"), S("old"), 3))
AuthInputs ==
    {Nil,
     Some(AuthConfig("USER_PASSWORD", Some(UserPassword(Nil, Some(Details1))), Nil, Nil, Nil)),
     Some(AuthConfig("USER_PASSWORD", Some(UserPassword(Some(Resolved1), Nil)), Nil, Nil, Nil)),
     Some(AuthConfig("USER_PASSWORD", Some(UserPassword(Some(Resolved1), Some(Details1))), Nil, Nil, Nil)),
     Some(AuthConfig("USER_PASSWORD", Nil, Nil, Nil, Nil)),
     Some(AuthConfig("OAUTH2_JWT_BEARER", Nil, Some(Oauth2JwtBearer(Nil, Some(Details1))), Nil, Nil)),
     Some(AuthConfig("OAUTH2_JWT_BEARER", Nil, Some(Oauth2JwtBearer(Some(Resolved1), Nil)), Nil, Nil)),
     Some(AuthConfig("OAUTH2_CLIENT_CREDENTIALS", Nil, Nil,
                     Some(Oauth2ClientCredentials(Nil, Some(Details1))), Nil)),
     Some(AuthConfig("SSH_PUBLIC_KEY", Nil, Nil, Nil,
                     Some(SshPublicKey(Nil, Some(Details1), Nil, Some(Details1))))),
     Some(AuthConfig("OAUTH2_AUTH_CODE_FLOW", Nil, Nil, Nil, Nil)),
     Some(AuthConfig("", Nil, Nil, Nil, Nil))}

\* the serviceAccount a document may carry
DocServiceAccount == <<"own", At, "p7", IamSuffix>>
ServiceAccountInputs == {Nil, Some(DocServiceAccount)}

GoodDetails(name) == Some(ConnectorDetails(name, Provider, 1))
GoodVars ==
    Some(<<ConfigVar(S("project_id"), Some(ProjectToken)),
           ConfigVar(S("topic_id"), Some(S("t1"))),
           ConfigVar(S("dataset_id"), Some(S("d1")))>>)

\* connectorDetails that pass the validation, for the version path: a
\* version of several digits, version 0, and a name and a provider that
\* hold the separator of the path
PathDetails ==
    {Some(ConnectorDetails(OtherConnector, Provider, 12)),
     Some(ConnectorDetails(OtherConnector, Provider, 0)),
     Some(ConnectorDetails(<<"sales", Slash, "force">>, Provider, 1)),
     Some(ConnectorDetails(OtherConnector, <<"gcp", Slash, "eu">>, 1))}
\* auth configs with their secret resolved
ResolvedAuth ==
    {Some(AuthConfig("USER_PASSWORD", Some(UserPassword(Some(Resolved1), Nil)), Nil, Nil, Nil)),
     Some(AuthConfig("OAUTH2_JWT_BEARER", Nil, Some(Oauth2JwtBearer(Some(Resolved1), Nil)), Nil, Nil))}

\* The documents given to Create: each part varied against valid others,
\* the connectors with a grant against every configVariables input, and
\* the connectorDetails of the version path with an auth config.
Documents ==
    {ConnectionRequest(cd, Nil, Nil, Nil, sa) : cd \in DetailsInputs, sa \in ServiceAccountInputs}
    \cup {ConnectionRequest(GoodDetails(n), Nil, v, Nil, sa) :
              n \in GrantConnectors \cup {OtherConnector}, v \in VarsInputs,
              sa \in ServiceAccountInputs}
    \cup {ConnectionRequest(GoodDetails(OtherConnector), Nil, Nil, a, sa) :
              a \in AuthInputs, sa \in ServiceAccountInputs}
    \cup {ConnectionRequest(GoodDetails(S("pubsub")), Some(S("stale")), GoodVars, a, Nil) :
              a \in AuthInputs}
    \cup {ConnectionRequest(cd, Nil, Nil, a, Nil) : cd \in PathDetails, a \in ResolvedAuth}
Contents == {Malformed} \cup {Json(d) : d \in Documents}

\* the service-account override: none, a short name, a full email
OverrideInputs == {EmptyStr, S("sa1"), <<"sa1", At, "p5", IamSuffix>>}
\* the override's project and the KMS key: not given, given
OverrideProjects == {EmptyStr, S("p2")}
EncryptionKeys == {EmptyStr, S("locations/l/keyRings/r/cryptoKeys/k")}

\* An argument that create does not read for an input is left at its zero
\* value: the override's project without an override (line 275), the KMS
\* key without createSecret (lines 400, 407), createSecret without an
\* authConfig (line 396).
OverrideProjectsFor(serviceAccountName) ==
    IF serviceAccountName = EmptyStr THEN {EmptyStr} ELSE OverrideProjects
EncryptionKeysFor(createSecret) ==
    IF createSecret THEN EncryptionKeys ELSE {EmptyStr}
CreateSecretFor(content) ==
    IF content.valid /\ ~IsNil(Deref(content.v).AuthConfig) THEN BOOLEAN ELSE {FALSE}

\* connection names (ids)
Names == {S("a")}

\* ------------------------------------------------------------------ the control plane's answers
\* an HTTP answer: the error and the body (no body with an error)
HttpFail == [err |-> Error("http"), body |-> Nil]
HttpOk(body) == [err |-> NoError, body |-> Some(body)]

\* The JSON of an operation: done and error are keys that may be absent.
OperationJson(name, done, error) == [Name |-> name, Done |-> done, Error |-> error]
OperationName == <<"projects", Slash, "p1", Slash, "operations", Slash, "op1">>
Pending == Json(OperationJson(OperationName, Nil, Nil))
DoneSuccess == Json(OperationJson(OperationName, Some(TRUE), Nil))
DoneError == Json(OperationJson(OperationName, Some(TRUE), Some(Status)))

\* what the POST of a connection may answer
PostAnswers == {HttpFail, HttpOk(Malformed), HttpOk(Pending), HttpOk(DoneSuccess)}
\* what a poll of the operation may answer
PollAnswers == {HttpFail, HttpOk(Malformed), HttpOk(Pending), HttpOk(DoneSuccess), HttpOk(DoneError)}

\* json.Unmarshal(bytes, &o) into an operation that already holds values:
\* a key of the text overwrites its field, an absent key leaves it
unmarshalOperation(o, j) ==
    [Name |-> j.Name,
     Done |-> IF IsNil(j.Done) THEN o.Done ELSE Deref(j.Done),
     Error |-> IF IsNil(j.Error) THEN o.Error ELSE j.Error]

\* filepath.Base of a "/"-separated name
Base(s) == LET parts == Split(s, Slash) IN parts[Len(parts)]

\* the outcomes of the external calls that one run of create can observe:
\* only a call the run makes can fail, and a run that never posts gets no
\* answer
Envs(name, content, serviceAccountName, serviceAccountProject, encryptionKey, grantPermission, createSecret, posts) ==
    LET r0 == create(name, content, serviceAccountName, serviceAccountProject, encryptionKey,
                     grantPermission, createSecret, Env("none", FALSE, HttpFail, 1))
        made == {r0.calls[i].fn : i \in 1..Len(r0.calls)}
    IN  {Env(f, g, p, n) :
            f \in {"none"} \cup (FatalCalls \cap made),
            g \in IF made \cap GrantCalls = {} THEN {FALSE} ELSE BOOLEAN,
            p \in IF "HttpClient" \in made THEN posts ELSE {HttpFail},
            n \in IF "secmgr.Create" \in made THEN 1..MaxSecretVersion ELSE {1}}

\* ------------------------------------------------------------------ state
VARIABLES
    cmdPrint,   \* apiclient.GetCmdPrintHttpResponseSetting(): the command-level setting
    printFlag,  \* the process-wide flag apiclient.SetClientPrintHttpResponse sets
    pc,         \* "idle", "polling", "walking", "done" or "crashed"
    op,         \* the operation the command runs: "Create", "Get", "Import", "Export"
    cr,         \* the activation of Create: its arguments, locals and named results
    gt,         \* the activation of Get
    imp,        \* the activation of Import
    ex,         \* the activation of Export, with the files it has written
    ret,        \* what the operation returned to the command
    calls,      \* the external calls of the process, in order
    server      \* what the control plane holds, as far as it has answered:
                \* the names it holds and the names it has said it does not
vars == <<cmdPrint, printFlag, pc, op, cr, gt, imp, ex, ret, calls, server>>

NoCreate == [active |-> FALSE]
NoImport == [active |-> FALSE]
NoGet == [active |-> FALSE]
NoExport == [active |-> FALSE]
NoReturn == [body |-> Nil, err |-> NoError]

Init ==
    /\ cmdPrint \in BOOLEAN
    /\ printFlag = cmdPrint
    /\ pc = "idle"
    /\ op = "none"
    /\ cr = NoCreate
    /\ gt = NoGet
    /\ imp = NoImport
    /\ ex = NoExport
    /\ ret = NoReturn
    /\ calls = <<>>
    /\ server = [held |-> {}, absent |-> {}]

\* ------------------------------------------------------------------ Create
\* operation{}: the zero value
ZeroOperation == [Name |-> EmptyStr, Done |-> FALSE, Error |-> Nil]

\* the answers to the POST of a connection: the control plane refuses to
\* create a connection it holds
postAnswers(name, serverNow) == IF name \in serverNow.held THEN {HttpFail} ELSE PostAnswers

\* Create returns (body, err) to its caller: to the command, or to the walk
\* of Import (lines 663-667), which collects the error and goes on to the
\* next entry
CreateReturns(frame, body, err, impNow) ==
    /\ cr' = [frame EXCEPT !.returned = TRUE, !.err = err]
    /\ IF frame.caller = "Import"
       THEN /\ imp' = [impNow EXCEPT
                          !.errs = IF err # NoError THEN Append(@, Message(err)) ELSE @,
                          !.idx = @ + 1]
            /\ pc' = "walking"
            /\ ret' = ret
       ELSE /\ imp' = impNow
            /\ pc' = "done"
            /\ ret' = [body |-> body, err |-> err]

\* Create, lines 215-231 and 259-260, once create has returned r under the
\* outcomes env of its external calls: either the return or the start of
\* the wait. respBody is the named result, which no statement of Create
\* assigns; operationsBytes is r.resp. A panic unwinds through the deferred
\* restore of Import.
CreateCall(caller, name, content, serviceAccountName, serviceAccountProject, encryptionKey, grantPermission, createSecret, wait, env, r, impNow, callsNow, serverNow) ==
    LET frame == [active |-> TRUE, caller |-> caller, name |-> name, content |-> content,
                  serviceAccountName |-> serviceAccountName,
                  serviceAccountProject |-> serviceAccountProject,
                  encryptionKey |-> encryptionKey, grantPermission |-> grantPermission,
                  createSecret |-> createSecret, wait |-> wait, env |-> env, r |-> r,
                  respBody |-> Nil, err |-> r.err, o |-> ZeroOperation,
                  operationId |-> EmptyStr, polls |-> <<>>, line |-> "", returned |-> FALSE]
    IN  /\ calls' = callsNow \o r.calls
        /\ server' = IF r.status = "done" /\ r.err = NoError
                      THEN [held |-> serverNow.held \cup {name},
                            absent |-> serverNow.absent \ {name}]
                      ELSE serverNow
        /\ UNCHANGED <<cmdPrint, gt, ex>>
        /\ IF r.status = "panic"
           THEN /\ pc' = "crashed"
                /\ cr' = frame
                /\ printFlag' = IF caller = "Import" THEN cmdPrint ELSE printFlag
                /\ ret' = ret
                /\ imp' = impNow
           ELSE IF r.err # NoError
           THEN /\ CreateReturns(frame, Nil, r.err, impNow)
                /\ UNCHANGED printFlag
           ELSE IF ~wait
           THEN /\ CreateReturns(frame, frame.respBody, frame.err, impNow)
                /\ UNCHANGED printFlag
           ELSE IF ~Deref(r.resp).valid
           THEN \* lines 222-228: the flag is cleared, the deferred call sets it back
                /\ CreateReturns(frame, Nil, Error("json: cannot unmarshal"), impNow)
                /\ printFlag' = cmdPrint
           ELSE /\ printFlag' = FALSE
                /\ cr' = [frame EXCEPT
                             !.o = unmarshalOperation(ZeroOperation, Deref(Deref(r.resp).v)),
                             !.operationId = Base(Deref(Deref(r.resp).v).Name)]
                /\ pc' = "polling"
                /\ imp' = impNow
                /\ ret' = ret

\* the command `connectors create`: Create, lines 208-261
Create(name, content, serviceAccountName, serviceAccountProject, encryptionKey, grantPermission, createSecret, wait, env) ==
    /\ pc = "idle"
    /\ op' = "Create"
    /\ CreateCall("cli", name, content, serviceAccountName, serviceAccountProject, encryptionKey,
                  grantPermission, createSecret, wait, env,
                  create(name, content, stripServiceAccountName(serviceAccountName),
                         serviceAccountProject, encryptionKey, grantPermission, createSecret, env),
                  imp, calls, server)

\* work with the return of the branch of a completion with error missing:
\* the function falls through to the branch that goes on
workGoesOnAfterError(o, answer) ==
    IF answer.err # NoError
    THEN [cont |-> FALSE, o |-> o, err |-> answer.err, line |-> ""]
    ELSE IF ~Deref(answer.body).valid
    THEN [cont |-> FALSE, o |-> o, err |-> Error("json: cannot unmarshal"), line |-> ""]
    ELSE LET o1 == [Name |-> Deref(Deref(answer.body).v).Name,
                    Done |-> IF IsNil(Deref(Deref(answer.body).v).Done) THEN o.Done
                             ELSE Deref(Deref(Deref(answer.body).v).Done),
                    Error |-> IF IsNil(Deref(Deref(answer.body).v).Error) THEN o.Error
                              ELSE Deref(Deref(answer.body).v).Error]
         IN  IF o1.Done /\ IsNil(o1.Error)
             THEN [cont |-> FALSE, o |-> o1, err |-> NoError,
                   line |-> "Connection completed successfully!"]
             ELSE [cont |-> TRUE, o |-> o1, err |-> NoError,
                   line |-> IF o1.Done THEN "Connection completed with error"
                            ELSE "Connection status is: false"]

\* work returning false at an operation that is not done: a wait of one poll
workStopsOnPending(o, answer) ==
    IF answer.err # NoError
    THEN [cont |-> FALSE, o |-> o, err |-> answer.err, line |-> ""]
    ELSE IF ~Deref(answer.body).valid
    THEN [cont |-> FALSE, o |-> o, err |-> Error("json: cannot unmarshal"), line |-> ""]
    ELSE LET o1 == unmarshalOperation(o, Deref(Deref(answer.body).v)) IN
         [cont |-> FALSE, o |-> o1, err |-> NoError,
          line |-> IF ~o1.Done THEN "Connection status is: false"
                   ELSE IF ~IsNil(o1.Error) THEN "Connection completed with error"
                   ELSE "Connection completed successfully!"]

\* Create, lines 233-255: the function run at every tick. It reads the
\* operation and tells whether to go on; err is Create's named result.
work(o, answer) ==
    IF answer.err # NoError
    THEN [cont |-> FALSE, o |-> o, err |-> answer.err, line |-> ""]
    ELSE IF ~Deref(answer.body).valid
    THEN [cont |-> FALSE, o |-> o, err |-> Error("json: cannot unmarshal"), line |-> ""]
    ELSE LET o1 == unmarshalOperation(o, Deref(Deref(answer.body).v)) IN
         IF o1.Done
         THEN [cont |-> FALSE, o |-> o1, err |-> NoError,
               line |-> IF ~IsNil(o1.Error) THEN "Connection completed with error"
                        ELSE "Connection completed successfully!"]
         ELSE [cont |-> TRUE, o |-> o1, err |-> NoError, line |-> "Connection status is: false"]

\* apiclient.Every(interval, work): work runs at every tick until it
\* returns false; then the ticker stops and the stop channel is signalled
everyStops(cont) == ~cont

\* an operation that is done stays done: no pending answer follows
pollAnswers(o) == IF o.Done THEN PollAnswers \ {HttpOk(Pending)} ELSE PollAnswers

\* One tick of the wait of Create, lines 233-260: the poll, and when the
\* ticker stops, the return of (respBody, err) after the deferred restore
\* of the printing flag.
Tick(answer) ==
    /\ pc = "polling"
    /\ answer \in pollAnswers(cr.o)
    /\ answer = HttpOk(Pending) => Len(cr.polls) < MaxPolls
    /\ LET w == work(cr.o, answer)
           frame == [cr EXCEPT !.o = w.o, !.err = w.err, !.line = w.line,
                                !.polls = Append(@, answer)]
       IN  /\ calls' = Append(calls, Call("GetOperation", <<cr.operationId>>))
           /\ UNCHANGED <<cmdPrint, op, gt, ex, server>>
           /\ IF everyStops(w.cont)
              THEN /\ CreateReturns(frame, frame.respBody, frame.err, imp)
                   /\ printFlag' = cmdPrint
              ELSE /\ cr' = frame
                   /\ UNCHANGED <<printFlag, pc, imp, ret>>

\* ------------------------------------------------------------------ Get
\* type connection: the read model (ConfigVariables is a slice and
\* AuthConfig a struct, not pointers)
Connection(name, cv, cd, variables, auth) ==
    [Name |-> name, ConnectorVersion |-> cv, ConnectorDetails |-> cd,
     ConfigVariables |-> variables, AuthConfig |-> auth]
NoAuth == AuthConfig("", Nil, Nil, Nil, Nil)

\* json.Marshal of a connection: a nil pointer and an empty slice are
\* omitted, the authConfig struct is always written
MarshalConnectionKeys(c) ==
    {k \in {"Name", "ConnectorVersion", "ConnectorDetails"} : ~IsNil(c[k])}
        \cup (IF Len(c.ConfigVariables) > 0 THEN {"ConfigVariables"} ELSE {})
        \cup {"AuthConfig"}
MarshalConnection(c) ==
    [k \in MarshalConnectionKeys(c) |->
        IF k \in {"Name", "ConnectorVersion", "ConnectorDetails"} THEN Deref(c[k]) ELSE c[k]]

\* strconv.Atoi, its error dropped (line 736): the number a string of
\* digits with an optional sign denotes, 0 for any other string
DigitValue(d) == CHOOSE n \in 0..9 : Digits[n + 1] = d
IsDigits(s) == Len(s) > 0 /\ \A i \in 1..Len(s) : \E n \in 1..10 : Digits[n] = s[i]
RECURSIVE AtoiNat(_)
AtoiNat(s) == IF Len(s) = 0 THEN 0 ELSE 10 * AtoiNat(SubSeq(s, 1, Len(s) - 1)) + DigitValue(s[Len(s)])
Atoi(s) ==
    IF IsDigits(s) THEN AtoiNat(s)
    ELSE IF Len(s) > 1 /\ s[1] = "-" /\ IsDigits(Tail(s)) THEN 0 - AtoiNat(Tail(s))
    ELSE IF Len(s) > 1 /\ s[1] = "+" /\ IsDigits(Tail(s)) THEN AtoiNat(Tail(s))
    ELSE 0

\* strings.Split(s, "/")[i] (i counted from 0) is in range
hasSegment(s, i) == Len(Split(s, Slash)) > i
segment(s, i) == Split(s, Slash)[i + 1]

\* lines 731-746
getConnectorName(version) == segment(version, 7)
getConnectorVersion(version) == Atoi(segment(version, 9))
\* getConnectorProvider reading the segment of the location
getConnectorProviderOfLocation(name) == segment(name, 3)
getConnectorProvider(name) == segment(name, 5)
getConnectionName(name) == LET parts == Split(name, Slash) IN parts[Len(parts)]

\* lines 748-755
isGoogleConnection(connectionName) ==
    \/ connectionName = S("pubsub") \/ connectionName = S("gcs")
    \/ connectionName = S("biqguery")
    \/ connectionName = S("cloudsql-mysql") \/ connectionName = S("cloudsql-postgresql")
    \/ connectionName = S("cloudsql-sqlserver")

\* Get, lines 546-551: connectorDetails from the version path; the index
\* expressions panic on a nil or short path
detailsPanic(c) ==
    \/ IsNil(c.ConnectorVersion)
    \/ ~hasSegment(Deref(c.ConnectorVersion), 7)
    \/ ~hasSegment(Deref(c.ConnectorVersion), 9)
    \/ ~hasSegment(Deref(c.ConnectorVersion), 5)
deriveDetails(c) ==
    [c EXCEPT !.ConnectorDetails =
                  Some(ConnectorDetails(getConnectorName(Deref(c.ConnectorVersion)),
                                        getConnectorProvider(Deref(c.ConnectorVersion)),
                                        getConnectorVersion(Deref(c.ConnectorVersion)))),
              !.ConnectorVersion = Nil,
              !.Name = Nil]

\* Get, lines 553-564: the secret becomes secretDetails named by segment 3
\* of the secret version
redactPanics(c) ==
    \/ /\ c.AuthConfig.AuthType = "USER_PASSWORD"
       /\ \/ IsNil(c.AuthConfig.UserPassword)
          \/ IsNil(Deref(c.AuthConfig.UserPassword).Password)
          \/ ~hasSegment(Deref(Deref(c.AuthConfig.UserPassword).Password).SecretVersion, 3)
    \/ /\ c.AuthConfig.AuthType = "OAUTH2_JWT_BEARER"
       /\ \/ IsNil(c.AuthConfig.Oauth2JwtBearer)
          \/ IsNil(Deref(c.AuthConfig.Oauth2JwtBearer).ClientKey)
          \/ ~hasSegment(Deref(Deref(c.AuthConfig.Oauth2JwtBearer).ClientKey).SecretVersion, 3)
redactSecrets(c) ==
    IF c.AuthConfig.AuthType = "USER_PASSWORD"
    THEN LET up == Deref(c.AuthConfig.UserPassword)
             p == Deref(up.Password).SecretVersion
         IN  [c EXCEPT !.AuthConfig.UserPassword =
                 Some([up EXCEPT !.PasswordDetails = Some(SecretDetails(segment(p, 3), EmptyStr)),
                                 !.Password = Nil])]
    ELSE IF c.AuthConfig.AuthType = "OAUTH2_JWT_BEARER"
    THEN LET jwt == Deref(c.AuthConfig.Oauth2JwtBearer)
             p == Deref(jwt.ClientKey).SecretVersion
         IN  [c EXCEPT !.AuthConfig.Oauth2JwtBearer =
                 Some([jwt EXCEPT !.ClientKeyDetails = Some(SecretDetails(segment(p, 3), EmptyStr)),
                                  !.ClientKey = Nil])]
    ELSE c

\* Get, lines 565-571: project_id goes back to the placeholder
placeholderPanics(c) ==
    /\ isGoogleConnection(Deref(c.ConnectorDetails).Name)
    /\ \E i \in 1..Len(c.ConfigVariables) :
          c.ConfigVariables[i].Key = S("project_id") /\ IsNil(c.ConfigVariables[i].StringValue)
restorePlaceholders(c) ==
    IF isGoogleConnection(Deref(c.ConnectorDetails).Name)
    THEN [c EXCEPT !.ConfigVariables =
             [i \in 1..Len(c.ConfigVariables) |->
                 IF c.ConfigVariables[i].Key = S("project_id")
                 THEN [c.ConfigVariables[i] EXCEPT !.StringValue = Some(ProjectToken)]
                 ELSE c.ConfigVariables[i]]]
    ELSE c

\* Get, lines 524-583, given the answer to the HTTP GET: how it ends
\* ("return" or "panic"), what it returns, and what it has done to the
\* printing flag ("kept", "cleared", or "restored" to the command's setting)
get(minimal, overrides, answer) ==
    IF ~minimal
    THEN [status |-> "return", body |-> answer.body, err |-> answer.err, flag |-> "kept"]
    ELSE IF IsNil(answer.body) \/ ~Deref(answer.body).valid
    THEN [status |-> "return", body |-> Nil, err |-> Error("json: cannot unmarshal"),
          flag |-> "cleared"]
    ELSE LET c == Deref(Deref(answer.body).v) IN
         IF detailsPanic(c)
         THEN [status |-> "panic", body |-> Nil, err |-> NoError, flag |-> "cleared"]
         ELSE LET c1 == deriveDetails(c) IN
              IF overrides /\ (redactPanics(c1) \/ placeholderPanics(redactSecrets(c1)))
              THEN [status |-> "panic", body |-> Nil, err |-> NoError, flag |-> "cleared"]
              ELSE LET c2 == IF overrides THEN restorePlaceholders(redactSecrets(c1)) ELSE c1
                   IN  [status |-> "return", body |-> Some(Json(MarshalConnection(c2))),
                        err |-> NoError, flag |-> "restored"]

\* the connections the control plane may return
ConnectionPath(name) ==
    <<"projects", Slash, "p1", Slash, "locations", Slash, "us-west1", Slash,
      "connections", Slash>> \o name
StoredVars ==
    <<ConfigVar(S("project_id"), Some(S("p1"))), ConfigVar(S("topic_id"), Some(S("t1")))>>
StoredPassword(version) ==
    AuthConfig("USER_PASSWORD", Some(UserPassword(Some(Secret(version)), Nil)), Nil, Nil, Nil)
StoredClientKey(version) ==
    AuthConfig("OAUTH2_JWT_BEARER", Nil, Some(Oauth2JwtBearer(Some(Secret(version)), Nil)), Nil, Nil)
StoredConnection(connector, variables, auth) ==
    Connection(Some(ConnectionPath(S("a"))),
               Some(connectorVersionPath(ProjectID, ConnectorDetails(connector, Provider, 2))),
               Nil, variables, auth)
ShortSecretVersion == <<"projects", Slash, "p1", Slash, "secrets">>
Connections ==
    {StoredConnection(n, StoredVars, NoAuth) : n \in GrantConnectors \cup {OtherConnector}}
    \cup {StoredConnection(OtherConnector, <<>>, a) :
             a \in {StoredPassword(SecretVersionPath(ProjectID, S("sec1"), 1)),
                    StoredClientKey(SecretVersionPath(ProjectID, S("sec1"), 1)),
                    StoredPassword(ShortSecretVersion),
                    StoredClientKey(ShortSecretVersion),
                    AuthConfig("USER_PASSWORD", Nil, Nil, Nil, Nil)}}
    \cup {StoredConnection(S("pubsub"), <<ConfigVar(S("project_id"), Nil)>>, NoAuth),
          Connection(Some(ConnectionPath(S("a"))), Nil, Nil, <<>>, NoAuth),
          Connection(Some(ConnectionPath(S("a"))), Some(<<"projects", Slash, "p1">>), Nil,
                     <<>>, NoAuth)}
GetAnswers == {HttpFail, HttpOk(Malformed)} \cup {HttpOk(Json(c)) : c \in Connections}

\* the URL of one connection
connectionURL(name) == S("connections/") \o name

\* the command `connectors get`: Get, lines 524-583
Get(name, view, minimal, overrides, answer) ==
    LET g == get(minimal, overrides, answer) IN
    /\ pc = "idle"
    /\ op' = "Get"
    /\ calls' = Append(calls, HttpCall("GET", connectionURL(name), Nil, Nil))
    /\ printFlag' = IF g.flag = "cleared" THEN FALSE
                    ELSE IF g.flag = "restored" THEN cmdPrint
                    ELSE printFlag
    /\ pc' = IF g.status = "panic" THEN "crashed" ELSE "done"
    /\ ret' = IF g.status = "panic" THEN ret ELSE [body |-> g.body, err |-> g.err]
    /\ gt' = [active |-> TRUE, name |-> name, view |-> view, minimal |-> minimal,
              overrides |-> overrides, answer |-> answer]
    /\ UNCHANGED <<cmdPrint, cr, imp, ex, server>>

GetCommand ==
    /\ pc = "idle"
    /\ \E name \in Names, view \in {EmptyStr, S("FULL")}, minimal \in BOOLEAN,
          overrides \in BOOLEAN, answer \in GetAnswers :
          Get(name, view, minimal, overrides, answer)

\* ------------------------------------------------------------------ Import
\* A directory entry as filepath.Walk presents it to the walk function: the
\* base name, whether it is a directory, whether the walk failed to read it
\* (the err argument), whether os.ReadFile succeeds, and the file's content.
Entry(base, isDir, walkErr, readable, content) ==
    [base |-> base, isDir |-> isDir, walkErr |-> walkErr, readable |-> readable,
     content |-> content]

\* filepath.Ext: the suffix from the last dot of the base name
ExtTokens == {".json", ".txt"}
Ext(base) ==
    IF Len(base) > 0 /\ base[Len(base)] \in ExtTokens THEN <<base[Len(base)]>> ELSE EmptyStr
\* strings.TrimSuffix
TrimSuffix(s, suffix) ==
    IF Len(s) >= Len(suffix) /\ SubSeq(s, Len(s) - Len(suffix) + 1, Len(s)) = suffix
    THEN SubSeq(s, 1, Len(s) - Len(suffix))
    ELSE s

\* the documents found in a folder: valid, without connectorDetails, with a
\* secret to resolve, and text that is no JSON
PlainDocument == ConnectionRequest(GoodDetails(OtherConnector), Nil, Nil, Nil, Nil)
SecretDocument ==
    ConnectionRequest(GoodDetails(OtherConnector), Nil, Nil,
        Some(AuthConfig("USER_PASSWORD", Some(UserPassword(Nil, Some(Details1))), Nil, Nil, Nil)),
        Nil)
InvalidDocument == ConnectionRequest(Nil, Nil, Nil, Nil, Nil)
Entries ==
    {Entry(S("sub"), TRUE, FALSE, FALSE, Malformed),
     Entry(S("missing"), FALSE, TRUE, FALSE, Malformed),
     Entry(<<"b", ".txt">>, FALSE, FALSE, TRUE, Json(PlainDocument)),
     Entry(<<"a", ".json">>, FALSE, FALSE, FALSE, Malformed),
     Entry(<<"a", ".json">>, FALSE, FALSE, TRUE, Json(PlainDocument)),
     Entry(<<"a", ".json">>, FALSE, FALSE, TRUE, Json(InvalidDocument)),
     Entry(<<"a", ".json">>, FALSE, FALSE, TRUE, Malformed),
     Entry(<<"b", ".json">>, FALSE, FALSE, TRUE, Json(SecretDocument))}
\* a folder: its entries in walk order
Folders == UNION {[1..n -> Entries] : n \in 0..MaxFiles}

\* the entries the walk function passes over: lines 646-655
skipped(e) == e.walkErr \/ e.isDir \/ Ext(e.base) # S(".json")
\* line 656
connectionId(e) == TrimSuffix(e.base, Ext(e.base))

\* The answer to the existence probe of a name, with whether the control
\* plane holds the connection: a held connection is returned unless the
\* request itself fails; a connection not held is an error.
HeldConnection == StoredConnection(OtherConnector, <<>>, NoAuth)
Probes(name) ==
    {[holds |-> TRUE, answer |-> a] :
        a \in IF name \in server.absent THEN {} ELSE {HttpOk(Json(HeldConnection)), HttpFail}}
    \cup {[holds |-> FALSE, answer |-> a] :
        a \in IF name \in server.held THEN {} ELSE {HttpFail}}
probed(name, probe) ==
    IF probe.holds THEN [held |-> server.held \cup {name}, absent |-> server.absent]
    ELSE [held |-> server.held, absent |-> server.absent \cup {name}]

\* Import, lines 640-643: the flag is cleared, its restore deferred, and the
\* walk begins. probes, creates and held record, per entry, the probes and
\* the calls of Create made for it and whether the control plane held the
\* connection when it was probed.
Import(folder, createSecret, wait) ==
    /\ pc = "idle"
    /\ op' = "Import"
    /\ printFlag' = FALSE
    /\ imp' = [active |-> TRUE, files |-> folder, createSecret |-> createSecret,
               wait |-> wait, idx |-> 1, errs |-> <<>>,
               probes |-> [i \in 1..Len(folder) |-> 0],
               creates |-> [i \in 1..Len(folder) |-> 0],
               held |-> [i \in 1..Len(folder) |-> FALSE],
               aborted |-> FALSE]
    /\ pc' = "walking"
    /\ UNCHANGED <<cmdPrint, cr, gt, ex, ret, calls, server>>

\* Import, lines 645-673: the walk function on the next entry, with the
\* probe's answer and the outcomes of the external calls of Create. A
\* failed read is returned to filepath.Walk, which ends the walk with it,
\* and Import returns nil (lines 675-677).
WalkFn(probe, env) ==
    LET e == imp.files[imp.idx]
        name == connectionId(e)
        g == get(FALSE, FALSE, probe.answer)
        afterProbe == [imp EXCEPT !.probes[imp.idx] = @ + 1, !.held[imp.idx] = probe.holds]
        callsNow == Append(calls, HttpCall("GET", connectionURL(name), Nil, Nil))
    IN  /\ pc = "walking"
        /\ imp.idx <= Len(imp.files)
        /\ IF skipped(e)
           THEN /\ imp' = [imp EXCEPT !.idx = @ + 1]
                /\ UNCHANGED <<cmdPrint, printFlag, pc, op, cr, gt, ex, ret, calls, server>>
           ELSE IF ~e.readable
           THEN /\ imp' = [imp EXCEPT !.aborted = TRUE]
                /\ pc' = "done"
                /\ ret' = [body |-> Nil, err |-> NoError]
                /\ printFlag' = cmdPrint
                /\ UNCHANGED <<cmdPrint, op, cr, gt, ex, calls, server>>
           ELSE IF g.err # NoError
           THEN /\ UNCHANGED op
                /\ CreateCall("Import", name, e.content, EmptyStr, EmptyStr, EmptyStr, FALSE,
                              imp.createSecret, imp.wait, env,
                              create(name, e.content, stripServiceAccountName(EmptyStr), EmptyStr,
                                     EmptyStr, FALSE, imp.createSecret, env),
                              [afterProbe EXCEPT !.creates[imp.idx] = @ + 1],
                              callsNow, probed(name, probe))
           ELSE /\ imp' = [afterProbe EXCEPT !.idx = @ + 1]
                /\ calls' = callsNow
                /\ server' = probed(name, probe)
                /\ UNCHANGED <<cmdPrint, printFlag, pc, op, cr, gt, ex, ret>>

\* Import, lines 675-683: the walk is over; the errors collected are joined
\* into one, and the deferred restore of the flag runs
ImportReturns ==
    /\ pc = "walking"
    /\ imp.idx > Len(imp.files)
    /\ pc' = "done"
    /\ ret' = [body |-> Nil,
               err |-> IF Len(imp.errs) > 0 THEN <<Join(imp.errs, "\n")>> ELSE NoError]
    /\ printFlag' = cmdPrint
    /\ UNCHANGED <<cmdPrint, op, cr, gt, imp, ex, calls, server>>

\* the command `connectors import`
ImportCommand ==
    /\ pc = "idle"
    /\ \E folder \in Folders, createSecret \in BOOLEAN, wait \in BOOLEAN :
          Import(folder, createSecret, wait)

\* the probes and the outcomes of Create's external calls that the walk
\* function can observe on an entry: none on an entry it passes over or
\* cannot read, no outcomes of Create when the probe finds the connection
NoProbe == [holds |-> FALSE, answer |-> HttpFail]
NoEnv == Env("none", FALSE, HttpFail, 1)
probesFor(e) == IF skipped(e) \/ ~e.readable THEN {NoProbe} ELSE Probes(connectionId(e))
envsFor(e, probe, createSecret) ==
    IF skipped(e) \/ ~e.readable \/ probe.answer.err = NoError THEN {NoEnv}
    ELSE Envs(connectionId(e), e.content, EmptyStr, EmptyStr, EmptyStr, FALSE, createSecret,
              postAnswers(connectionId(e), probed(connectionId(e), probe)))

\* the walk function on the next entry, with every answer of the control
\* plane and every outcome of the external calls
Walk ==
    /\ pc = "walking"
    /\ imp.idx <= Len(imp.files)
    /\ \E probe \in probesFor(imp.files[imp.idx]) :
          \E env \in envsFor(imp.files[imp.idx], probe, imp.createSecret) :
             WalkFn(probe, env)

\* ------------------------------------------------------------------ Export
\* line 72
maxPageSize == 1000

\* the URL of List, lines 586-602, as Export calls it
listURL(pageSize) ==
    IF pageSize # 0 - 1 THEN S("connections?pageSize=") \o Itoa(pageSize) ELSE S("connections")

\* Export, lines 708-713, for one connection: the index expressions and the
\* dereferences that panic
exportPanics(c) ==
    \/ IsNil(c.ConnectorVersion)
    \/ ~hasSegment(Deref(c.ConnectorVersion), 7)
    \/ ~hasSegment(Deref(c.ConnectorVersion), 9)
    \/ IsNil(c.Name)
\* exportDocument without the statement of line 711
exportDocumentKeepsVersion(c) ==
    [c EXCEPT !.ConnectorDetails =
                  Some(ConnectorDetails(getConnectorName(Deref(c.ConnectorVersion)), EmptyStr,
                                        getConnectorVersion(Deref(c.ConnectorVersion)))),
              !.Name = Nil]
\* the connection as Export writes it: name and version of connectorDetails
\* are set, its provider is not
exportDocument(c) ==
    [c EXCEPT !.ConnectorDetails =
                  Some(ConnectorDetails(getConnectorName(Deref(c.ConnectorVersion)), EmptyStr,
                                        getConnectorVersion(Deref(c.ConnectorVersion)))),
              !.ConnectorVersion = Nil,
              !.Name = Nil]
exportFile(c) ==
    [name |-> getConnectionName(Deref(c.Name)) \o S(".json"),
     payload |-> Json(MarshalConnection(exportDocument(c)))]

\* the answers to the list call: a failure, text that is no JSON, and the
\* lists of up to MaxConnections connections
ExportConnections ==
    {StoredConnection(S("pubsub"), StoredVars, NoAuth),
     StoredConnection(OtherConnector, <<>>,
                      StoredPassword(SecretVersionPath(ProjectID, S("sec1"), 1))),
     Connection(Some(ConnectionPath(S("b"))),
                Some(connectorVersionPath(ProjectID, ConnectorDetails(S("gcs"), Provider, 1))),
                Nil, <<>>, NoAuth),
     Connection(Some(ConnectionPath(S("b"))), Nil, Nil, <<>>, NoAuth)}
Listings == UNION {[1..n -> ExportConnections] : n \in 0..MaxConnections}
ListAnswers == {HttpFail, HttpOk(Malformed)} \cup {HttpOk(Json([Connections |-> l])) : l \in Listings}

\* the index of the first connection of the list at which Export stops
\* early: it panics there, or the write at failAt fails (0: no write fails);
\* Len + 1 when it runs through
RECURSIVE stopIndex(_, _, _)
stopIndex(l, failAt, i) ==
    IF i > Len(l) THEN i
    ELSE IF exportPanics(l[i]) \/ failAt = i THEN i
    ELSE stopIndex(l, failAt, i + 1)

\* Export, lines 686-729, given the answer to the list call and the write
\* that fails. The restore of the flag is deferred: it runs on every way
\* out, a panic included.
Export(folder, answer, failAt) ==
    LET decoded == ~IsNil(answer.body) /\ Deref(answer.body).valid
        l == IF answer.err = NoError /\ decoded
             THEN Deref(Deref(answer.body).v).Connections ELSE <<>>
        k == stopIndex(l, failAt, 1)
        files == [i \in 1..(k - 1) |-> exportFile(l[i])]
    IN  /\ pc = "idle"
        /\ op' = "Export"
        /\ calls' = Append(calls, HttpCall("GET", listURL(maxPageSize), Nil, Nil))
        /\ printFlag' = cmdPrint
        /\ ex' = [active |-> TRUE, folder |-> folder, answer |-> answer, failAt |-> failAt,
                  written |-> files]
        /\ IF answer.err # NoError
           THEN pc' = "done" /\ ret' = [body |-> Nil, err |-> answer.err]
           ELSE IF ~decoded
           THEN pc' = "done" /\ ret' = [body |-> Nil, err |-> Error("json: cannot unmarshal")]
           ELSE IF k > Len(l)
           THEN pc' = "done" /\ ret' = [body |-> Nil, err |-> NoError]
           ELSE IF exportPanics(l[k])
           THEN pc' = "crashed" /\ ret' = ret
           ELSE pc' = "done" /\ ret' = [body |-> Nil, err |-> Error("write failed")]
        /\ UNCHANGED <<cmdPrint, cr, gt, imp, server>>

\* the command `connectors export`
ExportCommand ==
    /\ pc = "idle"
    /\ \E folder \in {S("out")}, answer \in ListAnswers, failAt \in 0..MaxConnections :
          Export(folder, answer, failAt)

\* the command `connectors create`, with every input and every outcome of
\* the external calls
CreateCommand ==
    /\ pc = "idle"
    /\ \E name \in Names, content \in Contents, serviceAccountName \in OverrideInputs,
          grantPermission \in BOOLEAN :
       \E serviceAccountProject \in OverrideProjectsFor(serviceAccountName),
          createSecret \in CreateSecretFor(content) :
       \E encryptionKey \in EncryptionKeysFor(createSecret) :
          \E env \in Envs(name, content, stripServiceAccountName(serviceAccountName),
                           serviceAccountProject, encryptionKey, grantPermission,
                           createSecret, postAnswers(name, server)) :
             \E wait \in BOOLEAN :
                Create(name, content, serviceAccountName, serviceAccountProject, encryptionKey,
                       grantPermission, createSecret, wait, env)

\* a tick of the poll loop, with every answer of the control plane
Poll ==
    /\ pc = "polling"
    /\ \E answer \in PollAnswers : Tick(answer)

Next ==
    \/ CreateCommand
    \/ Poll
    \/ GetCommand
    \/ ImportCommand
    \/ Walk
    \/ ImportReturns
    \/ ExportCommand

Spec == Init /\ [][Next]_vars

\* ------------------------------------------------------------------ the wait of Create
\* the command `connectors create --wait` on a document with and without a
\* secret and on text that is no JSON, with every outcome of the external
\* calls
WaitContents == {Malformed, Json(PlainDocument), Json(SecretDocument)}
WaitCommand ==
    /\ pc = "idle"
    /\ \E name \in Names, content \in WaitContents :
       \E createSecret \in CreateSecretFor(content) :
          \E env \in Envs(name, content, EmptyStr, EmptyStr, EmptyStr, FALSE, createSecret,
                           postAnswers(name, server)) :
             Create(name, content, EmptyStr, EmptyStr, EmptyStr, FALSE, createSecret, TRUE, env)

NextWait ==
    \/ WaitCommand
    \/ Poll

\* The ticker of apiclient.Every fires again and again until it is stopped:
\* a poll that can be made is made. The control plane answers done, or the
\* poll fails, after at most MaxPolls answers of an operation in progress.
SpecWait == Init /\ [][NextWait]_vars /\ WF_vars(Poll)

\* ------------------------------------------------------------------ observations
\* the document a run of create has posted (the body of its last call)
posted(r) == r.status = "done"
postCall(r) == r.calls[Len(r.calls)]
transmitted(r) == Deref(postCall(r).body)
\* the positions in the calls of a run of the calls of some functions
callsOf(r, fns) == {i \in 1..Len(r.calls) : r.calls[i].fn \in fns}
\* the document given to the activation of Create
inputDocument == Deref(cr.content.v)
\* create ran on a decoded document
decoded == cr.active /\ cr.content.valid
\* the connectorDetails of a document pass the validation
validDetails(doc) ==
    /\ ~IsNil(doc.ConnectorDetails)
    /\ Deref(doc.ConnectorDetails).Name # EmptyStr
    /\ Deref(doc.ConnectorDetails).Provider # EmptyStr
    /\ Deref(doc.ConnectorDetails).Version >= 0
\* the POST of the connection in the calls of the process
isPost(call) == call.fn = "HttpClient" /\ call.args[1] = S("POST")
isProbe(call) == call.fn = "HttpClient" /\ call.args[1] = S("GET")
lastPost ==
    CHOOSE i \in 0..Len(calls) :
        /\ i = 0 \/ isPost(calls[i])
        /\ \A j \in (i + 1)..Len(calls) : ~isPost(calls[j])
pollsIssued == Cardinality({j \in (lastPost + 1)..Len(calls) : calls[j].fn = "GetOperation"})
\* a poll that failed (the request, or the decoding of its answer) or that
\* found the operation done
terminal(answer) ==
    \/ answer.err # NoError
    \/ ~Deref(answer.body).valid
    \/ Deref(Deref(answer.body).v).Done = Some(TRUE)

\* ------------------------------------------------------------------ C1
\* C1: for every Create whose POST succeeds, the body Create returns is the
\* initial operation response of that POST and the error is nil, with
\* wait=true as with wait=false, whatever the polls answer.
C1_ReturnsInitialOperation ==
    (pc = "done" /\ op = "Create" /\ posted(cr.r) /\ cr.env.post.err = NoError)
        => /\ ret.body = cr.env.post.body
           /\ ret.err = NoError

\* ------------------------------------------------------------------ C2
\* C2: in Create with wait=true the operation is polled once per tick; as
\* long as every poll so far succeeded with done=false the wait goes on
\* (Create has not returned); the first poll that fails or finds done=true
\* is the last one, and Create returns on it. So the polls issued are the
\* answers up to and including the first terminal one.
C2_PollsStopAtFirstTerminal ==
    (cr.active /\ cr.wait /\ posted(cr.r) /\ cr.r.err = NoError /\ Deref(cr.r.resp).valid)
        => /\ \A i \in 1..(Len(cr.polls) - 1) : ~terminal(cr.polls[i])
           /\ pc = "polling" => ~cr.returned
           /\ ~cr.returned => pc = "polling" /\ \A i \in 1..Len(cr.polls) : ~terminal(cr.polls[i])
           /\ cr.returned => Len(cr.polls) >= 1 /\ terminal(cr.polls[Len(cr.polls)])
           /\ pollsIssued = Len(cr.polls)
           /\ \A j \in (lastPost + 1)..Len(calls) :
                 calls[j].fn = "GetOperation" => calls[j].args = <<S("op1")>>
\* the scenario {done:false}, {done:false}, {done:true}: Create has
\* returned after the third poll, and the outcome logged is success
C2_Witness ==
    /\ cr.active /\ cr.wait /\ cr.returned
    /\ cr.polls = <<HttpOk(Pending), HttpOk(Pending), HttpOk(DoneSuccess)>>
    /\ pollsIssued = 3
    /\ cr.line = "Connection completed successfully!"

\* ------------------------------------------------------------------ C3
\* the email the override stands for: its local part (an override given as
\* a full service-account email is cut at "@"), the override's project or
\* the active one
overrideEmail ==
    LET local == IF Contains(cr.serviceAccountName, IamSuffix)
                 THEN SubSeq(cr.serviceAccountName, 1, IndexOf(cr.serviceAccountName, At, 1) - 1)
                 ELSE cr.serviceAccountName
        project == IF cr.serviceAccountProject = EmptyStr THEN ProjectID
                   ELSE cr.serviceAccountProject
    IN  local \o <<At>> \o project \o <<IamSuffix>>
transmittedServiceAccount ==
    IF "ServiceAccount" \in DOMAIN transmitted(cr.r)
    THEN Some(transmitted(cr.r).ServiceAccount) ELSE Nil
\* C3: the serviceAccount of the document Create transmits is the override
\* email whenever a non-empty override is passed, for every input document
\* (also one that carries a serviceAccount); otherwise the default compute
\* identity when grantPermission; otherwise Create adds none.
C3_OverrideAlwaysWins ==
    (decoded /\ posted(cr.r))
        => transmittedServiceAccount =
               IF cr.serviceAccountName # EmptyStr THEN Some(overrideEmail)
               ELSE IF cr.grantPermission THEN Some(DefaultComputeSA)
               ELSE inputDocument.ServiceAccount

\* ------------------------------------------------------------------ C4
\* the secret version that stands for the details of a secret: the one the
\* secret store returned for the secret it created under that name, or,
\* without createSecret, projects/{project}/secrets/{name}/versions/1
isSecretVersion(version, name) ==
    IF cr.createSecret
    THEN /\ Cardinality(callsOf(cr.r, {"secmgr.Create"})) = 1
         /\ \A i \in callsOf(cr.r, {"secmgr.Create"}) :
               cr.r.calls[i].args[2] = name /\ cr.r.calls[i].answer = Some(version)
    ELSE version = <<"projects", "/", "p1", "/", "secrets", "/">> \o name \o <<"/", "versions", "/", "1">>
\* a secret field after create: no details; the resolved secret where the
\* input had details, the input's secret otherwise
secretResolved(secretIn, detailsIn, secretOut, detailsOut) ==
    /\ IsNil(detailsOut)
    /\ IF IsNil(detailsIn) THEN secretOut = secretIn
       ELSE /\ ~IsNil(secretOut)
            /\ isSecretVersion(Deref(secretOut).SecretVersion, Deref(detailsIn).SecretName)
\* C4 as amended: in every document Create transmits, the payload of the
\* document's auth type carries no SecretDetails when the auth type is
\* USER_PASSWORD or OAUTH2_JWT_BEARER: where the input payload had them, the
\* transmitted payload has the resolved secret version, with createSecret
\* true and false alike. The payloads of OAUTH2_CLIENT_CREDENTIALS and
\* SSH_PUBLIC_KEY are transmitted as they were given, SecretDetails included.
C4_MatchedSecretsResolved ==
    (decoded /\ posted(cr.r) /\ ~IsNil(inputDocument.AuthConfig))
        => LET in == Deref(inputDocument.AuthConfig)
               out == transmitted(cr.r).AuthConfig
           IN  /\ out.AuthType = in.AuthType
               /\ (in.AuthType = "USER_PASSWORD" /\ ~IsNil(in.UserPassword))
                     => /\ ~IsNil(out.UserPassword)
                        /\ secretResolved(Deref(in.UserPassword).Password,
                                          Deref(in.UserPassword).PasswordDetails,
                                          Deref(out.UserPassword).Password,
                                          Deref(out.UserPassword).PasswordDetails)
               /\ (in.AuthType = "OAUTH2_JWT_BEARER" /\ ~IsNil(in.Oauth2JwtBearer))
                     => /\ ~IsNil(out.Oauth2JwtBearer)
                        /\ secretResolved(Deref(in.Oauth2JwtBearer).ClientKey,
                                          Deref(in.Oauth2JwtBearer).ClientKeyDetails,
                                          Deref(out.Oauth2JwtBearer).ClientKey,
                                          Deref(out.Oauth2JwtBearer).ClientKeyDetails)
               /\ in.AuthType \in {"OAUTH2_CLIENT_CREDENTIALS", "SSH_PUBLIC_KEY"} => out = in
\* a document with passwordDetails and an older password has been posted,
\* the secret created by the secret store
C4_Witness ==
    /\ decoded /\ posted(cr.r) /\ cr.createSecret
    /\ ~IsNil(inputDocument.AuthConfig)
    /\ Deref(inputDocument.AuthConfig).AuthType = "USER_PASSWORD"
    /\ ~IsNil(Deref(inputDocument.AuthConfig).UserPassword)
    /\ ~IsNil(Deref(Deref(inputDocument.AuthConfig).UserPassword).PasswordDetails)
    /\ ~IsNil(Deref(Deref(inputDocument.AuthConfig).UserPassword).Password)
    /\ Deref(transmitted(cr.r).AuthConfig.UserPassword).Password
           = Some(Secret(SecretVersionPath(ProjectID, S("sec1"), 2)))
\* C4: in every document Create transmits, no authConfig payload carries
\* SecretDetails, for each of the four auth types.
C4_NoSecretDetailsTransmitted ==
    (decoded /\ posted(cr.r) /\ ~IsNil(inputDocument.AuthConfig))
        => LET out == transmitted(cr.r).AuthConfig IN
           /\ ~IsNil(out.UserPassword) => IsNil(Deref(out.UserPassword).PasswordDetails)
           /\ ~IsNil(out.Oauth2JwtBearer) => IsNil(Deref(out.Oauth2JwtBearer).ClientKeyDetails)
           /\ ~IsNil(out.Oauth2ClientCredentials)
                 => IsNil(Deref(out.Oauth2ClientCredentials).ClientSecretDetails)
           /\ ~IsNil(out.SshPublicKey)
                 => /\ IsNil(Deref(out.SshPublicKey).PasswordDetails)
                    /\ IsNil(Deref(out.SshPublicKey).SshClientCertDetails)

\* ------------------------------------------------------------------ C5
\* the variables the grant of a connector needs, and the grant
requiredKeys(name) ==
    IF name = S("pubsub") THEN <<S("project_id"), S("topic_id")>>
    ELSE IF name = S("bigquery") THEN <<S("project_id"), S("dataset_id")>>
    ELSE <<S("project_id")>>
grantOf(name) ==
    IF name = S("pubsub") THEN "SetPubSubIAMPermission"
    ELSE IF name = S("bigquery") THEN "SetBigQueryIAMPermission"
    ELSE IF name = S("gcs") THEN "SetCloudStorageIAMPermission"
    ELSE "SetCloudSQLIAMPermission"
\* the string values given for a key in the input document
valuesOf(key) ==
    IF IsNil(inputDocument.ConfigVariables) THEN {}
    ELSE {v.StringValue : v \in {w \in {Deref(inputDocument.ConfigVariables)[i] :
                                           i \in 1..Len(Deref(inputDocument.ConfigVariables))} :
                                     w.Key = key}}
\* C5: with grantPermission and an effective service account, Create for a
\* connector with a grant makes the matching grant call exactly once, with
\* the project_id value, the resource id and the service account; when a
\* required key is absent from configVariables, or there are no
\* configVariables at all, Create returns an error, before any grant call
\* and without the POST.
C5_GrantOnceOrError ==
    (/\ decoded /\ cr.grantPermission /\ validDetails(inputDocument)
     /\ Deref(inputDocument.ConnectorDetails).Name \in GrantConnectors
     /\ cr.env.fatal \notin {"CreateServiceAccount", "GetComputeEngineDefaultServiceAccount"})
        => LET name == Deref(inputDocument.ConnectorDetails).Name
               keys == requiredKeys(name)
               grants == callsOf(cr.r, GrantCalls)
           IN  IF \E k \in 1..Len(keys) : valuesOf(keys[k]) = {}
               THEN /\ cr.r.status = "error"
                    /\ grants = {}
                    /\ callsOf(cr.r, {"HttpClient"}) = {}
               ELSE (\A k \in 1..Len(keys) :
                        \E x \in valuesOf(keys[k]) : valuesOf(keys[k]) = {x} /\ x \notin {Nil, Some(EmptyStr)})
                    => /\ Cardinality(grants) = 1
                       /\ \A g \in grants :
                             /\ cr.r.calls[g].fn = grantOf(name)
                             /\ cr.r.calls[g].args =
                                   [k \in 1..(Len(keys) + 1) |->
                                       IF k = Len(keys) + 1 THEN Deref(cr.r.c.ServiceAccount)
                                       ELSE LET x == Deref(CHOOSE y \in valuesOf(keys[k]) : TRUE)
                                            IN  IF x = ProjectToken THEN ProjectID ELSE x]

\* ------------------------------------------------------------------ C6
\* create on the arguments of the activation, under given outcomes
createUnder(env) ==
    create(cr.name, cr.content, stripServiceAccountName(cr.serviceAccountName),
           cr.serviceAccountProject, cr.encryptionKey, cr.grantPermission, cr.createSecret, env)
\* the connector-specific grant of the run failed
grantFailed == cr.active /\ cr.env.grantFails /\ callsOf(cr.r, GrantCalls) # {}
C7_InvalidInputNoCalls ==
    (cr.active /\ (~cr.content.valid \/ ~validDetails(inputDocument)))
        => /\ cr.r.status = "error"
           /\ cr.r.calls = <<>>

\* ------------------------------------------------------------------ C8
\* a regular file with extension .json
candidate(e) == ~e.walkErr /\ ~e.isDir /\ e.base[Len(e.base)] = ".json"
\* C8: Import returns an error, the messages of the failed Creates joined,
\* if and only if some Create failed; a failure on one file, of its Create
\* or of reading it, keeps no other candidate file from being attempted and
\* drops no error collected.
C8_ImportCombinesErrors ==
    (pc = "done" /\ op = "Import")
        => /\ ret.err # NoError <=> Len(imp.errs) > 0
           /\ Len(imp.errs) > 0 => ret.err = <<Join(imp.errs, "\n")>>
           /\ \A i \in 1..Len(imp.files) :
                 (candidate(imp.files[i]) /\ imp.files[i].readable) => imp.probes[i] = 1

\* ------------------------------------------------------------------ C9
\* C9: Import handles the files in walk order; for each regular .json file
\* exactly one probe with the file's base name without extension, then
\* exactly one Create only when the control plane does not hold the
\* connection; no probe and no Create for a directory or another file.
C9_OneProbeOneCreate ==
    (pc = "done" /\ op = "Import")
        => /\ \A i \in 1..Len(imp.files) :
                 IF candidate(imp.files[i])
                 THEN /\ imp.probes[i] = 1
                      /\ imp.creates[i] = IF imp.held[i] THEN 0 ELSE 1
                 ELSE imp.probes[i] = 0 /\ imp.creates[i] = 0
           /\ LET probes == SelectSeq(calls, isProbe)
                  files == SelectSeq(imp.files, candidate)
              IN  /\ Len(probes) = Len(files)
                  /\ \A k \in 1..Len(probes) :
                        probes[k].args[2]
                            = S("connections/") \o SubSeq(files[k].base, 1, Len(files[k].base) - 1)

\* ------------------------------------------------------------------ C10
\* C10: when Create with wait=true, Get with minimal=true, Import or Export
\* has returned, on whichever path, the printing flag equals the
\* command-level setting.
C10_FlagRestored ==
    (/\ pc = "done"
     /\ \/ op = "Create" /\ cr.wait
        \/ op = "Get" /\ gt.minimal
        \/ op \in {"Import", "Export"})
        => printFlag = cmdPrint


\* ------------------------------------------------------------------ C11
\* the connection the control plane answered to Get, and the document Get
\* returned
storedConnection == Deref(Deref(gt.answer.body).v)
returnedDocument == Deref(Deref(ret.body).v)
returnedVars ==
    IF "ConfigVariables" \in DOMAIN returnedDocument THEN returnedDocument.ConfigVariables
    ELSE <<>>
\* Get with minimal and overrides has returned a document
redacted == pc = "done" /\ op = "Get" /\ gt.minimal /\ gt.overrides /\ ret.err = NoError
\* the first-party connectors whose project_id goes back to the placeholder
AllowList ==
    {S("pubsub"), S("gcs"), S("bigquery"), S("cloudsql-mysql"), S("cloudsql-postgresql"),
     S("cloudsql-sqlserver")}
\* C11: Get with minimal and overrides returns every project_id variable of
\* a pubsub, gcs, bigquery or cloudsql-* connection with the value
\* $PROJECT_ID$, and that of any other connection unchanged.
C11_ProjectIdPlaceholder ==
    redacted
        => LET name == Split(Deref(storedConnection.ConnectorVersion), Slash)[8]
               stored == storedConnection.ConfigVariables
           IN  /\ Len(returnedVars) = Len(stored)
               /\ \A i \in 1..Len(stored) :
                     stored[i].Key = S("project_id")
                        => returnedVars[i].StringValue =
                               IF name \in AllowList THEN Some(S("$PROJECT_ID$"))
                               ELSE stored[i].StringValue

\* ------------------------------------------------------------------ C12
\* the secret version of the stored auth config, when its auth type has one
storedSecretVersions ==
    LET a == storedConnection.AuthConfig IN
    IF a.AuthType = "USER_PASSWORD" /\ ~IsNil(a.UserPassword)
       /\ ~IsNil(Deref(a.UserPassword).Password)
    THEN {Deref(Deref(a.UserPassword).Password).SecretVersion}
    ELSE IF a.AuthType = "OAUTH2_JWT_BEARER" /\ ~IsNil(a.Oauth2JwtBearer)
            /\ ~IsNil(Deref(a.Oauth2JwtBearer).ClientKey)
    THEN {Deref(Deref(a.Oauth2JwtBearer).ClientKey).SecretVersion}
    ELSE {}
\* C12: when the stored secret version of a USER_PASSWORD or
\* OAUTH2_JWT_BEARER auth config has fewer than 4 segments, Get with minimal
\* and overrides returns an error; it does not crash.
C12_ShortSecretPathIsError ==
    (/\ gt.active /\ gt.minimal /\ gt.overrides
     /\ gt.answer.err = NoError /\ Deref(gt.answer.body).valid
     /\ \E v \in storedSecretVersions : Len(Split(v, Slash)) < 4)
        => pc = "done" /\ ret.err # NoError


\* ------------------------------------------------------------------ C13
\* the connectorDetails that Get with minimal=true reads off a version path
detailsOfPath(path) ==
    ConnectorDetails(getConnectorName(path), getConnectorProvider(path), getConnectorVersion(path))
\* the input document has USER_PASSWORD or OAUTH2_JWT_BEARER auth
secretAuth ==
    /\ ~IsNil(inputDocument.AuthConfig)
    /\ Deref(inputDocument.AuthConfig).AuthType \in {"USER_PASSWORD", "OAUTH2_JWT_BEARER"}
\* C13 as amended: for every valid input document whose connector name and
\* provider hold no "/", the connectorDetails read off the connectorVersion
\* that Create transmits (segments 7, 5 and 9) are the input's name,
\* provider and version. (Checked for every auth config, not only
\* USER_PASSWORD and OAUTH2_JWT_BEARER.)
C13_RoundTripWithoutSeparator ==
    (/\ decoded /\ posted(cr.r) /\ validDetails(inputDocument)
     /\ ~Contains(Deref(inputDocument.ConnectorDetails).Name, Slash)
     /\ ~Contains(Deref(inputDocument.ConnectorDetails).Provider, Slash))
        => /\ Len(Split(transmitted(cr.r).ConnectorVersion, Slash)) = 10
           /\ detailsOfPath(transmitted(cr.r).ConnectorVersion) = Deref(inputDocument.ConnectorDetails)
\* a document with USER_PASSWORD auth and version 12 has been posted and its
\* path read back
C13_Witness ==
    /\ decoded /\ posted(cr.r) /\ secretAuth
    /\ Deref(inputDocument.ConnectorDetails) = ConnectorDetails(S("salesforce"), S("gcp"), 12)
    /\ detailsOfPath(transmitted(cr.r).ConnectorVersion).Version = 12
\* C13: for every valid input document with USER_PASSWORD or
\* OAUTH2_JWT_BEARER auth, the connectorDetails read off the
\* connectorVersion that Create derives are the input's.
C13_RoundTrip ==
    (decoded /\ posted(cr.r) /\ validDetails(inputDocument) /\ secretAuth)
        => detailsOfPath(transmitted(cr.r).ConnectorVersion) = Deref(inputDocument.ConnectorDetails)


\* ------------------------------------------------------------------ C14
\* C14: every document Create transmits has connectorVersion
\* projects/{P}/locations/global/providers/{provider}/connectors/{name}/versions/{version}
\* for the active project P and the connectorDetails of the input, and has
\* no connectorDetails.
C14_ConnectorVersionPath ==
    (decoded /\ posted(cr.r))
        => LET cd == Deref(inputDocument.ConnectorDetails)
               doc == transmitted(cr.r)
           IN  /\ "ConnectorDetails" \notin DOMAIN doc
               /\ "ConnectorVersion" \in DOMAIN doc
               /\ doc.ConnectorVersion =
                      <<"projects", "/">> \o ProjectID
                          \o <<"/", "locations", "/", "global", "/", "providers", "/">>
                          \o cd.Provider \o <<"/", "connectors", "/">> \o cd.Name
                          \o <<"/", "versions", "/">> \o Itoa(cd.Version)
\* a document that came with a connectorVersion of its own has been posted
\* with the path of its connectorDetails
C14_Witness ==
    /\ decoded /\ posted(cr.r)
    /\ inputDocument.ConnectorVersion = Some(S("stale"))
    /\ transmitted(cr.r).ConnectorVersion =
           <<"projects", "/", "p1", "/", "locations", "/", "global", "/", "providers", "/",
             "gcp", "/", "connectors", "/", "pubsub", "/", "versions", "/", "1">>


\* ------------------------------------------------------------------ C15
\* the configVariables of the input document
inputVars ==
    IF IsNil(inputDocument.ConfigVariables) THEN <<>> ELSE Deref(inputDocument.ConfigVariables)
\* the value a variable of the input is to carry wherever create uses it
substituted(v) ==
    IF v.Key = S("project_id") /\ v.StringValue = Some(S("$PROJECT_ID$")) THEN Some(S("p1"))
    ELSE IF Contains(v.Key, "_region") /\ v.StringValue = Some(S("$REGION$"))
    THEN Some(S("us-west1"))
    ELSE v.StringValue
\* C15: a variable project_id = $PROJECT_ID$ (a variable *_region = $REGION$)
\* carries the active project (region) in every IAM grant call and in the
\* transmitted document, never the token, and every other variable its
\* value; substituting again in the transmitted variables changes nothing.
C15_SubstitutionBeforeUse ==
    decoded
        => /\ \A g \in callsOf(cr.r, GrantCalls) :
                 /\ \A k \in 1..Len(cr.r.calls[g].args) :
                       cr.r.calls[g].args[k] \notin {S("$PROJECT_ID$"), S("$REGION$")}
                 /\ \E i \in 1..Len(inputVars) :
                       /\ inputVars[i].Key = S("project_id")
                       /\ Some(cr.r.calls[g].args[1]) = substituted(inputVars[i])
           /\ (posted(cr.r) /\ ~IsNil(inputDocument.ConfigVariables))
                 => LET out == transmitted(cr.r).ConfigVariables IN
                    /\ Len(out) = Len(inputVars)
                    /\ \A i \in 1..Len(out) :
                          /\ out[i].Key = inputVars[i].Key
                          /\ out[i].StringValue = substituted(inputVars[i])
                          /\ substituteVar(out[i]) = out[i]
\* a pubsub document with project_id = $PROJECT_ID$ and a region placeholder
\* has been granted and posted with the active project and region
C15_Witness ==
    /\ decoded /\ posted(cr.r)
    /\ \E g \in callsOf(cr.r, GrantCalls) : cr.r.calls[g].args[1] = S("p1")
    /\ \E i \in 1..Len(inputVars) :
          inputVars[i].Key = S("project_id") /\ inputVars[i].StringValue = Some(S("$PROJECT_ID$"))
    /\ \E i \in 1..Len(inputVars) :
          /\ inputVars[i].StringValue = Some(S("$REGION$"))
          /\ transmitted(cr.r).ConfigVariables[i].StringValue = Some(S("us-west1"))


\* ------------------------------------------------------------------ C16
\* the connections the list call of Export returned
listed ==
    IF ex.active /\ ex.answer.err = <<>> /\ ex.answer.body # <<>> /\ ex.answer.body[1].valid
    THEN ex.answer.body[1].v[1].Connections
    ELSE <<>>
\* t is what follows the last "/" of s
lastSegmentOf(s, t) ==
    /\ \A i \in 1..Len(t) : t[i] # "/"
    /\ Len(t) <= Len(s)
    /\ SubSeq(s, Len(s) - Len(t) + 1, Len(s)) = t
    /\ Len(t) < Len(s) => s[Len(s) - Len(t)] = "/"
\* C16: an Export that returns success has written one file for each
\* connection of the list, in turn, named by what follows the last "/" of
\* the connection's name and ".json", holding a document with neither name
\* nor connectorVersion; an empty list is a success with no file written.
C16_OneFilePerConnection ==
    (op = "Export" /\ pc = "done")
        => /\ ret.err = <<>>
                => /\ Len(ex.written) = Len(listed)
                   /\ \A i \in 1..Len(listed) :
                         /\ \E t \in {SubSeq(ex.written[i].name, 1, Len(ex.written[i].name) - 1)} :
                               /\ ex.written[i].name = t \o <<".json">>
                               /\ lastSegmentOf(listed[i].Name[1], t)
                         /\ ex.written[i].payload.valid
                         /\ DOMAIN ex.written[i].payload.v[1] \cap {"Name", "ConnectorVersion"} = {}
           /\ (ex.answer.err = <<>> /\ ex.answer.body # <<>> /\ ex.answer.body[1].valid
                  /\ listed = <<>>)
                => ret.err = <<>> /\ ex.written = <<>>
\* an Export of two connections of different names has returned success
C16_Witness ==
    /\ op = "Export" /\ pc = "done" /\ ret.err = <<>>
    /\ Len(listed) = 2 /\ Len(ex.written) = 2
    /\ ex.written[1].name # ex.written[2].name


\* ------------------------------------------------------------------ C17
\* C17: every document Export writes carries connectorDetails with the
\* name, provider and version of segments 7, 5 and 9 of the version path
\* of the connection, which pass the validation of create (name and
\* provider not empty, version not negative).
C17_ExportedDetailsValid ==
    (op = "Export" /\ pc = "done")
        => \A i \in 1..Len(ex.written) :
              LET cd == ex.written[i].payload.v[1].ConnectorDetails
                  path == listed[i].ConnectorVersion[1]
              IN  /\ cd.Name = segment(path, 7)
                  /\ cd.Provider = segment(path, 5)
                  /\ cd.Version = Atoi(segment(path, 9))
                  /\ cd.Name # <<>> /\ cd.Provider # <<>> /\ cd.Version >= 0


\* ------------------------------------------------------------------ C18
\* Create waits: its POST was answered with an operation
waiting ==
    cr.active /\ cr.wait /\ posted(cr.r) /\ cr.r.err = <<>> /\ cr.r.resp[1].valid
\* every poll so far succeeded and found the operation in progress
allInProgress ==
    \A i \in 1..Len(cr.polls) :
        /\ cr.polls[i].err = <<>>
        /\ cr.polls[i].body[1].valid
        /\ cr.polls[i].body[1].v[1].Done # <<TRUE>>
\* C18: a Create that waits returns once the control plane answers a poll
\* with done=true or a poll fails, which ends every wait here; and for as
\* long as every poll has succeeded with done=false, whatever their number,
\* Create has not returned.
C18_WaitEndsAtTerminalPollOnly ==
    /\ [](waiting /\ allInProgress => pc = "polling" /\ ~cr.returned)
    /\ (waiting /\ pc = "polling") ~> (waiting /\ cr.returned /\ ~allInProgress)
\* Create has returned the failure of a poll that followed MaxPolls polls
\* of an operation in progress
C18_Witness ==
    /\ waiting /\ cr.returned /\ pc = "done"
    /\ Len(cr.polls) = MaxPolls + 1
    /\ \A i \in 1..MaxPolls : cr.polls[i].err = <<>> /\ cr.polls[i].body[1].v[1].Done = <<>>
    /\ cr.polls[MaxPolls + 1].err # <<>>
    /\ ret.err = cr.polls[MaxPolls + 1].err


====
